---- MODULE Spec2Model ----
(***************************************************************************)
(* State-machine model of SearchServer (search_server.h): the word         *)
(* interner, the inverted index, the document store, query parsing with    *)
(* its process-wide error slot, MatchDocument, FindTopDocuments,           *)
(* RemoveDocument with the workers of its for_each, and SetStopWords.      *)
(*                                                                         *)
(* A text is a sequence of one-character strings, a word is a non-empty    *)
(* text without blanks.  A term frequency count/total is kept as the pair  *)
(* [num |-> count, den |-> total]; relevance is an integer in units of     *)
(* 1e-7, so that two relevances can differ by less than kAccuracy and not  *)
(* be equal.                                                               *)
(***************************************************************************)
EXTENDS Integers, Sequences, FiniteSets, TLC

VARIABLES
    stop_words_,                               \* std::set<std::string>
    words_storage_,                            \* WordStorage: [data_, string_views_]
    word_to_document_id_to_term_frequency_,    \* word -> (document id -> tf)
    document_id_to_document_data_,             \* document id -> DocumentData
    document_ids_,                             \* std::set<int>
    exception_pointer_in_parse_query_word,     \* the global std::exception_ptr
    lastOp,                                    \* the last completed call and what it gave
    pc, call, todo, query, temp, out,          \* per reader thread: a call in flight
    removal                                    \* the locals of a RemoveDocument in flight

server_vars == <<stop_words_, words_storage_, word_to_document_id_to_term_frequency_,
                 document_id_to_document_data_, document_ids_>>

reader_vars == <<pc, call, todo, query, temp, out>>

vars == <<stop_words_, words_storage_, word_to_document_id_to_term_frequency_,
          document_id_to_document_data_, document_ids_,
          exception_pointer_in_parse_query_word, lastOp,
          pc, call, todo, query, temp, out, removal>>

----------------------------------------------------------------------------
(* Characters, texts, words *)

\* the code point of each character the model's texts use ("\t" is a control character)
CodePoint == ("a" :> 97) @@ ("b" :> 98) @@ ("s" :> 115) @@ ("-" :> 45) @@ (" " :> 32) @@ ("\t" :> 9)

\* std::string_view operator< : lexicographic by code point, a proper prefix first
RECURSIVE WordLess(_, _)
WordLess(u, v) ==
    IF v = <<>> THEN FALSE
    ELSE IF u = <<>> THEN TRUE
    ELSE IF CodePoint[Head(u)] # CodePoint[Head(v)] THEN CodePoint[Head(u)] < CodePoint[Head(v)]
    ELSE WordLess(Tail(u), Tail(v))

\* the elements of a std::set<std::string_view> in iteration order
RECURSIVE SortedWords(_)
SortedWords(S) ==
    IF S = {} THEN <<>>
    ELSE LET least == CHOOSE w \in S : \A x \in S \ {w} : WordLess(w, x)
         IN  <<least>> \o SortedWords(S \ {least})

\* the elements of a std::set<int> / the keys of a std::map<int, T> in iteration order
RECURSIVE SortedIds(_)
SortedIds(S) ==
    IF S = {} THEN <<>>
    ELSE LET least == CHOOSE i \in S : \A x \in S : i <= x
         IN  <<least>> \o SortedIds(S \ {least})

Range(seq) == {seq[i] : i \in 1..Len(seq)}

RECURSIVE SplitIntoWordsFrom(_, _, _)
SplitIntoWordsFrom(text, word, words) ==
    IF text = <<>> THEN (IF word = <<>> THEN words ELSE Append(words, word))
    ELSE IF Head(text) = " "
         THEN SplitIntoWordsFrom(Tail(text), <<>>, IF word = <<>> THEN words ELSE Append(words, word))
         ELSE SplitIntoWordsFrom(Tail(text), Append(word, Head(text)), words)

\* string_processing::SplitIntoWords: the maximal blank-free runs of the text, in order
SplitIntoWords(text) == SplitIntoWordsFrom(text, <<>>, <<>>)

\* SearchServer::IsValidWord: no character with a code point below 0x20
IsValidWord(word) == \A i \in 1..Len(word) : ~(CodePoint[word[i]] >= 0 /\ CodePoint[word[i]] < 32)

\* SearchServer::IsStopWord
IsStopWord(stop_words, word) == word \in stop_words

\* SearchServer::SplitIntoWordsNoStop: the words of the text that are no stop words;
\* valid is FALSE when some word has a control character
SplitIntoWordsNoStop(stop_words, text) ==
    LET all == SplitIntoWords(text)
    IN  [valid |-> \A i \in 1..Len(all) : IsValidWord(all[i]),
         words |-> SelectSeq(all, LAMBDA w : ~IsStopWord(stop_words, w))]

RECURSIVE SumSeq(_)
SumSeq(s) == IF s = <<>> THEN 0 ELSE Head(s) + SumSeq(Tail(s))

\* SearchServer::ComputeAverageRating: the mean truncated toward zero, 0 for no ratings
ComputeAverageRating(ratings) ==
    IF ratings = <<>> THEN 0
    ELSE LET sum == SumSeq(ratings)
         IN  IF sum >= 0 THEN sum \div Len(ratings) ELSE -((-sum) \div Len(ratings))

----------------------------------------------------------------------------
(* WordStorage *)

EmptyWordStorage == [data_ |-> <<>>, string_views_ |-> {}]

\* Insert without the test of string_views_.count(word): the word is pushed to data_
\* whether known or not (the std::set keeps one view of equal words)
WordStorageInsertUnchecked(storage, word) ==
    [data_ |-> Append(storage.data_, word),
     string_views_ |-> storage.string_views_ \cup {word}]

\* WordStorage::Insert
WordStorageInsert(storage, word) ==
    IF word \notin storage.string_views_
    THEN [data_ |-> Append(storage.data_, word),
          string_views_ |-> storage.string_views_ \cup {word}]
    ELSE storage

\* WordStorage::Find: TRUE when the iterator returned is not end()
WordStorageFind(storage, word) == word \in storage.string_views_

RECURSIVE WordStorageInsertAll(_, _)
WordStorageInsertAll(storage, words) ==
    IF words = <<>> THEN storage
    ELSE WordStorageInsertAll(WordStorageInsert(storage, Head(words)), Tail(words))

----------------------------------------------------------------------------
(* The index: pure operators on the server's fields *)

\* a std::map as a function; EmptyMap is the map with no key
EmptyMap == [k \in {} |-> 0]

MapErase(map, key) == [k \in DOMAIN map \ {key} |-> map[k]]

MapPut(map, key, value) == [k \in DOMAIN map \cup {key} |-> IF k = key THEN value ELSE map[k]]

\* the fields of a SearchServer as one record
Server == [stop_words_ |-> stop_words_,
           words_storage_ |-> words_storage_,
           word_to_document_id_to_term_frequency_ |-> word_to_document_id_to_term_frequency_,
           document_id_to_document_data_ |-> document_id_to_document_data_,
           document_ids_ |-> document_ids_]

\* SearchServer::SearchServer(stop_words): the stop words of a valid collection, nothing else
NewSearchServer(stop_words) ==
    [stop_words_ |-> stop_words,
     words_storage_ |-> EmptyWordStorage,
     word_to_document_id_to_term_frequency_ |-> EmptyMap,
     document_id_to_document_data_ |-> EmptyMap,
     document_ids_ |-> {}]

\* SearchServer::GetDocumentCount
GetDocumentCount(srv) == Cardinality(DOMAIN srv.document_id_to_document_data_)

\* SearchServer::begin and end: the ids met from begin() to end(), those of the
\* std::set<int> document_ids_ in its order
DocumentIdsFromBeginToEnd(srv) == SortedIds(srv.document_ids_)

\* SearchServer::GetWordFrequencies: the document's map, an empty map for an unknown id
GetWordFrequencies(srv, document_id) ==
    IF document_id \in DOMAIN srv.document_id_to_document_data_
    THEN srv.document_id_to_document_data_[document_id].word_frequencies
    ELSE EmptyMap

\* how many times word occurs in words
Occurrences(words, word) == Cardinality({i \in 1..Len(words) : words[i] = word})

\* what AddDocument does to the server when it accepts the document: the words
\* interned, the document stored, a row entry for each of its words
AddAcceptedDocument(srv, document_id, document, status, ratings) ==
    LET split == SplitIntoWordsNoStop(srv.stop_words_, document)
        words == split.words
        frequencies == [w \in Range(words) |-> [num |-> Occurrences(words, w), den |-> Len(words)]]
        index == srv.word_to_document_id_to_term_frequency_
    IN  [srv |->
           [stop_words_ |-> srv.stop_words_,
            words_storage_ |-> WordStorageInsertAll(srv.words_storage_, words),
            word_to_document_id_to_term_frequency_ |->
               [w \in DOMAIN index \cup Range(words) |->
                   IF w \in Range(words)
                   THEN MapPut(IF w \in DOMAIN index THEN index[w] ELSE EmptyMap,
                               document_id, frequencies[w])
                   ELSE index[w]],
            document_id_to_document_data_ |->
               MapPut(srv.document_id_to_document_data_, document_id,
                      [rating |-> ComputeAverageRating(ratings),
                       status |-> status,
                       word_frequencies |-> frequencies]),
            document_ids_ |-> srv.document_ids_ \cup {document_id}],
         ret |-> TRUE]

\* AddDocument without the test of the id: a document of a known id is stored over
\* the one the server has
AddDocumentOverKnownId(srv, document_id, document, status, ratings) ==
    IF ~SplitIntoWordsNoStop(srv.stop_words_, document).valid
    THEN [srv |-> srv, ret |-> FALSE]
    ELSE AddAcceptedDocument(srv, document_id, document, status, ratings)

\* SearchServer::AddDocument: ret is the bool returned.  A document with an id the
\* document store has, or with a word of a control character, is rejected.
AddDocument(srv, document_id, document, status, ratings) ==
    IF \/ document_id \in DOMAIN srv.document_id_to_document_data_
       \/ ~SplitIntoWordsNoStop(srv.stop_words_, document).valid
    THEN [srv |-> srv, ret |-> FALSE]
    ELSE AddAcceptedDocument(srv, document_id, document, status, ratings)

\* the permutations of 1..n: the orders in which a parallel algorithm may take n elements
Permutations1(n) == {p \in [1..n -> 1..n] : \A i, j \in 1..n : p[i] = p[j] => i = j}

\* the orders std::for_each / std::transform_reduce may take n elements in, per policy
ElementOrders(policy, n) ==
    IF policy = "seq" THEN {[i \in 1..n |-> i]} ELSE Permutations1(n)

\* a for_each whose function is element.clear(): every entry of the rows is erased
ForEachEraseAll(id_to_frequency, order, document_id) ==
    [i \in DOMAIN id_to_frequency |-> EmptyMap]

\* a for_each whose function erases nothing: the elements are left as they were
ForEachEraseNothing(id_to_frequency, order, document_id) == id_to_frequency

\* std::for_each(policy, ...) of RemoveDocument: element.erase(document_id), on the
\* elements in the order given
RECURSIVE ForEachErase(_, _, _)
ForEachErase(id_to_frequency, order, document_id) ==
    IF order = <<>> THEN id_to_frequency
    ELSE ForEachErase([id_to_frequency EXCEPT ![Head(order)] = MapErase(@, document_id)],
                      Tail(order), document_id)

\* RemoveDocument's last loop with the erase of an empty row left out
RECURSIVE PutRowsBackNoErase(_, _, _, _)
PutRowsBackNoErase(index, words, id_to_frequency, i) ==
    IF i > Len(words) THEN index
    ELSE PutRowsBackNoErase(MapPut(index, words[i], id_to_frequency[i]),
                            words, id_to_frequency, i + 1)

\* the loop that puts the rows back and erases a row left empty
RECURSIVE PutRowsBack(_, _, _, _)
PutRowsBack(index, words, id_to_frequency, i) ==
    IF i > Len(words) THEN index
    ELSE PutRowsBack(IF DOMAIN id_to_frequency[i] = {}
                     THEN MapErase(index, words[i])
                     ELSE MapPut(index, words[i], id_to_frequency[i]),
                     words, id_to_frequency, i + 1)

\* what RemoveDocument does once the id is known to be in the document store.  ret is
\* "returned", or "out_of_range" when .at(word) finds no row: the rows moved out before
\* that are left empty (moved-from) and nothing else is changed.
RemoveKnownDocument(srv, order, document_id, erase_id) ==
    LET index == srv.word_to_document_id_to_term_frequency_
        words_and_frequencies == GetWordFrequencies(srv, document_id)
        words == SortedWords(DOMAIN words_and_frequencies)
        missing == {i \in 1..Len(words) : words[i] \notin DOMAIN index}
        first_missing == CHOOSE i \in missing : \A j \in missing : i <= j
        id_to_frequency == [i \in 1..Len(words) |-> index[words[i]]]
        moved_from == [w \in DOMAIN index |-> IF w \in Range(words) THEN EmptyMap ELSE index[w]]
    IN  IF missing # {}
        THEN [srv |-> [srv EXCEPT !.word_to_document_id_to_term_frequency_ =
                          [w \in DOMAIN index |->
                              IF \E i \in 1..(first_missing - 1) : words[i] = w
                              THEN EmptyMap ELSE index[w]]],
              ret |-> "out_of_range"]
        ELSE [srv |-> [srv EXCEPT
                          !.word_to_document_id_to_term_frequency_ =
                              PutRowsBack(moved_from, words,
                                          ForEachErase(id_to_frequency, order, document_id), 1),
                          !.document_id_to_document_data_ = MapErase(@, document_id),
                          !.document_ids_ = IF erase_id THEN @ \ {document_id} ELSE @],
              ret |-> "returned"]

\* RemoveDocument without the check of the id: an unknown id reaches
\* document_id_to_document_data_.at(document_id) and throws
RemoveDocumentUnchecked(srv, order, document_id) ==
    IF document_id \notin DOMAIN srv.document_id_to_document_data_
    THEN [srv |-> srv, ret |-> "out_of_range"]
    ELSE RemoveKnownDocument(srv, order, document_id, TRUE)

\* RemoveDocument without document_ids_.erase(document_id)
RemoveDocumentKeepsId(srv, order, document_id) ==
    IF document_id \notin DOMAIN srv.document_id_to_document_data_
    THEN [srv |-> srv, ret |-> "returned"]
    ELSE RemoveKnownDocument(srv, order, document_id, FALSE)

\* RemoveDocument without document_id_to_document_data_.erase(document_id)
RemoveDocumentKeepsData(srv, order, document_id) ==
    IF document_id \notin DOMAIN srv.document_id_to_document_data_
    THEN [srv |-> srv, ret |-> "returned"]
    ELSE LET removed == RemoveKnownDocument(srv, order, document_id, TRUE)
         IN  [removed EXCEPT !.srv.document_id_to_document_data_ = srv.document_id_to_document_data_]

\* SearchServer::RemoveDocument(policy, document_id), the std::for_each taking the rows
\* in `order`
RemoveDocument(srv, order, document_id) ==
    IF document_id \notin DOMAIN srv.document_id_to_document_data_
    THEN [srv |-> srv, ret |-> "returned"]
    ELSE RemoveKnownDocument(srv, order, document_id, TRUE)

----------------------------------------------------------------------------
(* Query parsing *)

\* SearchServer::ParseQueryWord.  A token that starts with '-' is a minus word; a minus
\* sign with nothing or with another '-' after it is a MalformedQuery, a control character
\* an InvalidWord.  The exception does not leave the function: it is left in
\* exception_pointer_in_parse_query_word (error is what is stored there, "nullptr" for
\* no store) and a default-constructed QueryWord is returned.
ParseQueryWord(stop_words, text) ==
    LET is_minus == Head(text) = "-"
        data == IF is_minus THEN Tail(text) ELSE text
        error == IF is_minus /\ (data = <<>> \/ Head(data) = "-") THEN "MalformedQuery"
                 ELSE IF ~IsValidWord(data) THEN "InvalidWord"
                 ELSE "nullptr"
    IN  [word |-> IF error = "nullptr"
                  THEN [data |-> data, is_minus |-> is_minus, is_stop |-> IsStopWord(stop_words, data)]
                  ELSE [data |-> <<>>, is_minus |-> FALSE, is_stop |-> FALSE],
         error |-> error]

\* the lambda transform_word_in_query of ParseQuery
TransformWordInQuery(stop_words, word) ==
    LET query_word == ParseQueryWord(stop_words, word).word
    IN  IF ~query_word.is_stop
        THEN IF query_word.is_minus
             THEN [plus_words |-> {}, minus_words |-> {query_word.data}]
             ELSE [plus_words |-> {query_word.data}, minus_words |-> {}]
        ELSE [plus_words |-> {}, minus_words |-> {}]

\* Query::operator+= with the loop over other.minus_words left out
QueryPlusEqNoMinus(this, other) ==
    [plus_words |-> this.plus_words \cup other.plus_words,
     minus_words |-> this.minus_words]

\* Query::operator+=
QueryPlusEq(this, other) ==
    [plus_words |-> this.plus_words \cup other.plus_words,
     minus_words |-> this.minus_words \cup other.minus_words]

\* the lambda combine_queries of ParseQuery
CombineQueries(first, second) == QueryPlusEq(first, second)

\* the left fold of the elements from init: what the sequential policy computes
RECURSIVE FoldQueries(_, _)
FoldQueries(init, elements) ==
    IF elements = <<>> THEN init
    ELSE FoldQueries(CombineQueries(init, Head(elements)), Tail(elements))

\* GENERALIZED_SUM(combine_queries, ...) of the elements at the positions in `at`: every
\* result of splitting them into two groups in either order, summing each group the
\* same way and combining the two sums
RECURSIVE GeneralizedSums(_, _)
GeneralizedSums(elements, at) ==
    IF Cardinality(at) = 1 THEN {elements[i] : i \in at}
    ELSE UNION { {CombineQueries(x, y) : x \in GeneralizedSums(elements, left),
                                         y \in GeneralizedSums(elements, at \ left)} :
                 left \in (SUBSET at) \ {{}, at} }

\* std::transform_reduce(policy, words, Query{}, combine_queries, transform_word_in_query):
\* the Query values it may return.  The sequential policy folds from the left; a
\* parallel policy may group and permute Query{} and the transformed words in any way.
TransformReduce(policy, stop_words, words) ==
    LET elements == [i \in 1..Len(words) |-> TransformWordInQuery(stop_words, words[i])]
        init == [plus_words |-> {}, minus_words |-> {}]
    IN  IF policy = "seq"
        THEN {FoldQueries(init, elements)}
        ELSE GeneralizedSums(<<init>> \o elements, 1..(Len(words) + 1))

\* the errors ParseQueryWord may have stored last when every word has been transformed:
\* under the sequential policy that of the last rejected word, under a parallel policy
\* that of any rejected word (the stores of two workers are unordered); `slot` when no
\* word is rejected
ErrorsLeft(policy, stop_words, words, slot) ==
    LET rejected == {i \in 1..Len(words) : ParseQueryWord(stop_words, words[i]).error # "nullptr"}
        last == CHOOSE i \in rejected : \A j \in rejected : j <= i
    IN  IF rejected = {} THEN {slot}
        ELSE IF policy = "seq" THEN {ParseQueryWord(stop_words, words[last]).error}
        ELSE {ParseQueryWord(stop_words, words[i]).error : i \in rejected}

\* SearchServer::ParseQuery(policy, text) run to its end with no other thread at work:
\* the pairs of the Query returned and the error left in the global slot
ParseQuery(policy, stop_words, text, slot) ==
    LET words == SplitIntoWords(text)
    IN  {[query |-> q, error |-> e] : q \in TransformReduce(policy, stop_words, words),
                                      e \in ErrorsLeft(policy, stop_words, words, slot)}

----------------------------------------------------------------------------
(* MatchDocument and FindTopDocuments after the query is parsed *)

\* the part of MatchDocument after the error handling, with matched_words not cleared
\* when a minus word is in the document
MatchDocumentBodyNoMinus(srv, parsed_query, document_id) ==
    LET index == srv.word_to_document_id_to_term_frequency_
        matched_words == SelectSeq(SortedWords(parsed_query.plus_words),
                                   LAMBDA word : word \in DOMAIN index /\ document_id \in DOMAIN index[word])
    IN  IF document_id \in DOMAIN srv.document_id_to_document_data_
        THEN [kind |-> "return", words |-> matched_words,
              status |-> srv.document_id_to_document_data_[document_id].status]
        ELSE [kind |-> "throw", error |-> "out_of_range"]

\* the part of MatchDocument after the error handling, with every plus word that has a
\* row in the index taken as matched, whatever documents the row lists
MatchDocumentBodyAnyRow(srv, parsed_query, document_id) ==
    LET index == srv.word_to_document_id_to_term_frequency_
        matched_words == SelectSeq(SortedWords(parsed_query.plus_words),
                                   LAMBDA word : word \in DOMAIN index)
        minus_word_in_document ==
            \E word \in parsed_query.minus_words :
               word \in DOMAIN index /\ document_id \in DOMAIN index[word]
    IN  IF document_id \in DOMAIN srv.document_id_to_document_data_
        THEN [kind |-> "return",
              words |-> IF minus_word_in_document THEN <<>> ELSE matched_words,
              status |-> srv.document_id_to_document_data_[document_id].status]
        ELSE [kind |-> "throw", error |-> "out_of_range"]

\* the part of MatchDocument after the error handling, with the status looked up by
\* find() and a default status given for an id that is not in the document store
MatchDocumentBodyDefaultStatus(srv, parsed_query, document_id) ==
    IF document_id \in DOMAIN srv.document_id_to_document_data_
    THEN MatchDocumentBodyAnyRow(srv, parsed_query, document_id)
    ELSE [kind |-> "return", words |-> <<>>, status |-> "ACTUAL"]

\* the part of MatchDocument after the error handling: the plus words whose row lists
\* the document, in the order of the set; none when a minus word's row lists it; the
\* status from document_id_to_document_data_.at(document_id), which throws
\* std::out_of_range for an id that is not there
MatchDocumentBody(srv, parsed_query, document_id) ==
    LET index == srv.word_to_document_id_to_term_frequency_
        matched_words == SelectSeq(SortedWords(parsed_query.plus_words),
                                   LAMBDA word : word \in DOMAIN index /\ document_id \in DOMAIN index[word])
        minus_word_in_document ==
            \E word \in parsed_query.minus_words :
               word \in DOMAIN index /\ document_id \in DOMAIN index[word]
    IN  IF document_id \in DOMAIN srv.document_id_to_document_data_
        THEN [kind |-> "return",
              words |-> IF minus_word_in_document THEN <<>> ELSE matched_words,
              status |-> srv.document_id_to_document_data_[document_id].status]
        ELSE [kind |-> "throw", error |-> "out_of_range"]

\* the natural logarithm of 1..8 in units of 1e-7
LnTable == <<0, 6931472, 10986123, 13862944, 16094379, 17917595, 19459101, 20794415>>

\* SearchServer::ComputeWordInverseDocumentFrequency: ln(documents / documents with the word)
ComputeWordInverseDocumentFrequency(srv, word) ==
    LnTable[GetDocumentCount(srv)] -
    LnTable[Cardinality(DOMAIN srv.word_to_document_id_to_term_frequency_[word])]

RECURSIVE SumOver(_, _)
SumOver(f, S) ==
    IF S = {} THEN 0
    ELSE LET x == CHOOSE y \in S : TRUE IN f[x] + SumOver(f, S \ {x})

\* SearchServer::FindAllDocuments: for every document listed under a plus word the sum
\* of idf * tf over the plus words that list it; the documents listed under a minus
\* word are dropped; in ascending order of the id
FindAllDocuments(srv, parsed_query) ==
    LET index == srv.word_to_document_id_to_term_frequency_
        plus == parsed_query.plus_words \cap DOMAIN index
        minus == parsed_query.minus_words \cap DOMAIN index
        scored == UNION {DOMAIN index[w] : w \in plus}
        dropped == UNION {DOMAIN index[w] : w \in minus}
        relevance(id) ==
            SumOver([w \in plus |->
                       IF id \in DOMAIN index[w]
                       THEN (ComputeWordInverseDocumentFrequency(srv, w) * index[w][id].num)
                                \div index[w][id].den
                       ELSE 0], plus)
        ids == SortedIds(scored \ dropped)
    IN  [i \in 1..Len(ids) |->
            [id |-> ids[i], relevance |-> relevance(ids[i]),
             rating |-> srv.document_id_to_document_data_[ids[i]].rating]]

\* the predicates FindTopDocuments is called with: the status asked for (the overload
\* with desired_status), or an even id
Predicate(predicate, document_id, status, rating) ==
    IF predicate = "even id" THEN document_id % 2 = 0 ELSE status = predicate

\* static constexpr int kMaxResultDocumentCount
kMaxResultDocumentCount == 5

\* static constexpr double kAccuracy = 1e-6, in units of 1e-7
kAccuracy == 10

Abs(x) == IF x < 0 THEN -x ELSE x

\* the comparison FindTopDocuments sorts with
ComesBefore(left, right) ==
    IF Abs(left.relevance - right.relevance) < kAccuracy
    THEN left.rating > right.rating
    ELSE left.relevance > right.relevance

\* the first n elements
Resize(seq, n) == IF Len(seq) > n THEN SubSeq(seq, 1, n) ELSE seq

\* what std::sort requires of its comparison: a strict weak ordering of the elements.
\* ComesBefore is irreflexive and asymmetric; it is transitive, and so is "neither
\* ComesBefore the other", only when no relevances are near without being nearer still
IsStrictWeakOrdering(documents) ==
    \A x, y \in documents :
       IF ComesBefore(x, y)
       THEN \A z \in documents : ComesBefore(y, z) => ComesBefore(x, z)
       ELSE ComesBefore(y, x) \/
            \A z \in documents :
               (~ComesBefore(y, z) /\ ~ComesBefore(z, y)) => (~ComesBefore(x, z) /\ ~ComesBefore(z, x))

\* every order of the documents in which no document comes before one that ComesBefore
\* it (documents neither of which ComesBefore the other may end in either order)
RECURSIVE SortedOrders(_)
SortedOrders(documents) ==
    IF documents = {} THEN {<<>>}
    ELSE UNION { {<<first>> \o rest : rest \in SortedOrders(documents \ {first})} :
                 first \in {d \in documents : \A e \in documents : ~ComesBefore(e, d)} }

\* every order of the documents
RECURSIVE AllOrders(_)
AllOrders(documents) ==
    IF documents = {} THEN {<<>>}
    ELSE UNION { {<<first>> \o rest : rest \in AllOrders(documents \ {first})} :
                 first \in documents }

\* std::sort with ComesBefore: the orders it may leave the documents in.  With a
\* comparison that is no strict weak ordering the behaviour is undefined: the elements
\* are left in an order that depends on the algorithm and on the order they came in.
Sort(documents) ==
    IF IsStrictWeakOrdering(documents) THEN SortedOrders(documents) ELSE AllOrders(documents)

\* the end of FindTopDocuments: std::sort, then the resize to kMaxResultDocumentCount
SortAndResize(filtered_documents) ==
    {Resize(sorted, kMaxResultDocumentCount) : sorted \in Sort(Range(filtered_documents))}

\* the part of FindTopDocuments after the error handling, cutting the matched documents
\* to kMaxResultDocumentCount before they are filtered and sorted
FindTopDocumentsBodyCutFirst(srv, parsed_query, predicate) ==
    LET matched_documents == Resize(FindAllDocuments(srv, parsed_query), kMaxResultDocumentCount)
        filtered_documents ==
            SelectSeq(matched_documents,
                      LAMBDA document :
                         Predicate(predicate, document.id,
                                   srv.document_id_to_document_data_[document.id].status,
                                   srv.document_id_to_document_data_[document.id].rating))
    IN  {[kind |-> "return", documents |-> sorted] : sorted \in Sort(Range(filtered_documents))}

\* the part of FindTopDocuments after the error handling: the documents of
\* FindAllDocuments that satisfy the predicate, sorted, cut to kMaxResultDocumentCount.
\* The set of the values it may return.
FindTopDocumentsBody(srv, parsed_query, predicate) ==
    LET matched_documents == FindAllDocuments(srv, parsed_query)
        filtered_documents ==
            SelectSeq(matched_documents,
                      LAMBDA document :
                         Predicate(predicate, document.id,
                                   srv.document_id_to_document_data_[document.id].status,
                                   srv.document_id_to_document_data_[document.id].rating))
    IN  {[kind |-> "return", documents |-> documents] :
            documents \in SortAndResize(filtered_documents)}

\* the error handling without exception_pointer_in_parse_query_word = nullptr: a pending
\* error is thrown and left in the slot
AfterParseQueryKeepsSlot(parsed, bodies) ==
    IF parsed.error # "nullptr"
    THEN {[out |-> [kind |-> "throw", error |-> parsed.error], slot |-> parsed.error]}
    ELSE {[out |-> result, slot |-> "nullptr"] : result \in bodies}

\* the error handling after ParseQuery, then the body, with no other thread at work: a
\* pending error is taken out of the slot and thrown, else the body gives the outcome
AfterParseQuery(parsed, bodies) ==
    IF parsed.error # "nullptr"
    THEN {[out |-> [kind |-> "throw", error |-> parsed.error], slot |-> "nullptr"]}
    ELSE {[out |-> result, slot |-> "nullptr"] : result \in bodies}

\* SearchServer::MatchDocument(policy, raw_query, document_id) from its call to its end
\* with no other thread at work: the outcomes, each with the slot it leaves
MatchDocument(srv, slot, policy, raw_query, document_id) ==
    UNION { AfterParseQuery(parsed, {MatchDocumentBody(srv, parsed.query, document_id)}) :
            parsed \in ParseQuery(policy, srv.stop_words_, raw_query, slot) }

\* SearchServer::FindTopDocuments(raw_query, predicate) from its call to its end with no
\* other thread at work: the outcomes, each with the slot it leaves
FindTopDocuments(srv, slot, raw_query, predicate) ==
    UNION { AfterParseQuery(parsed, FindTopDocumentsBody(srv, parsed.query, predicate)) :
            parsed \in ParseQuery("seq", srv.stop_words_, raw_query, slot) }

----------------------------------------------------------------------------
(* Bounds and inputs *)

\* document ids are 0..MaxDocId
MaxDocId == 2

DocIds == 0..MaxDocId

Policies == {"seq", "par"}

\* the server is constructed with the stop words "s"
StopWordsText == <<"s">>

\* the documents AddDocument is called with: the round trip example of the spec, a
\* banned document without ratings, a document with a stop word, a document of stop
\* words only, and a document with a control character
DocInputs ==
    { [document |-> <<"a", " ", "b", " ", "a">>, status |-> "ACTUAL", ratings |-> <<4, 5, 6>>],
      [document |-> <<"a">>, status |-> "BANNED", ratings |-> <<>>],
      [document |-> <<"b", " ", " ", "s">>, status |-> "ACTUAL", ratings |-> <<1, 2>>],
      [document |-> <<"s">>, status |-> "ACTUAL", ratings |-> <<3>>],
      [document |-> <<"b", " ", "\t", "a">>, status |-> "ACTUAL", ratings |-> <<1>>] }

\* a query text has at most MaxQueryWords words
MaxQueryWords == 3

\* the words of the query texts: plus words, a stop word, minus words, a minus stop
\* word, a lone minus and a word with a control character
QueryTokens ==
    { <<"a">>, <<"b">>, <<"s">>, <<"-", "a">>, <<"-", "b">>, <<"-", "s">>,
      <<"-">>, <<"b", "\t">> }

\* the words joined by single blanks
RECURSIVE JoinWords(_)
JoinWords(words) ==
    IF words = <<>> THEN <<>>
    ELSE IF Len(words) = 1 THEN Head(words)
    ELSE Head(words) \o <<" ">> \o JoinWords(Tail(words))

\* every text of at most MaxQueryWords of the tokens
QueryTexts == {JoinWords(words) : words \in UNION {[1..n -> QueryTokens] : n \in 0..MaxQueryWords}}

\* the documents of the server the read-only calls run on, with their ids: the words
\* a and b in document 0, the word a alone in document 1
ReaderDocs ==
    { <<0, [document |-> <<"a", " ", "b", " ", "a">>, status |-> "ACTUAL", ratings |-> <<4, 5, 6>>]>>,
      <<1, [document |-> <<"a">>, status |-> "BANNED", ratings |-> <<>>]>> }

\* the query texts of the read-only calls: two plus words, a plus and a minus word, and
\* a word with a control character before a double minus
ReaderTexts ==
    { <<"b", " ", "a">>,
      <<"a", " ", "-", "b">>,
      <<"b", "\t", " ", "-", "-", "a">> }

\* the read-only calls: FindTopDocuments with a status, MatchDocument under a policy
\* with the id of a document or the id 2 of none
ReaderCalls ==
    {[op |-> "FindTopDocuments", policy |-> "seq", text |-> text, predicate |-> "ACTUAL"] :
        text \in ReaderTexts}
    \cup
    {[op |-> "MatchDocument", policy |-> policy, text |-> text, id |-> document_id] :
        policy \in Policies, text \in ReaderTexts, document_id \in 0..2}

\* FindTopDocuments is ranked on a server of at most MaxTopDocs documents
MaxTopDocs == 7

\* the documents of the server FindTopDocuments is ranked on (the document of id i is
\* rated i div 2, so at most two documents tie on relevance and rating)
TopInputs ==
    { [document |-> <<"a", " ", "b", " ", "a">>, status |-> "ACTUAL"],
      [document |-> <<"a">>, status |-> "BANNED"],
      [document |-> <<"b", " ", " ", "s">>, status |-> "ACTUAL"] }

\* the query texts ranked: a plus word, two plus words, a plus and a minus word, and a
\* lone minus before a good word
TopTexts ==
    { <<"a">>,
      <<"b", " ", "a">>,
      <<"a", " ", "-", "b">>,
      <<"-", " ", "a">> }

TopPredicates == {"ACTUAL", "even id"}

Readers == {"r1", "r2"}

NoCall == [op |-> "none"]

NoQuery == [plus_words |-> {}, minus_words |-> {}]

\* no RemoveDocument is in flight
NoRemoval == [phase |-> "none"]

----------------------------------------------------------------------------
(* State *)

SetServer(srv) ==
    /\ stop_words_' = srv.stop_words_
    /\ words_storage_' = srv.words_storage_
    /\ word_to_document_id_to_term_frequency_' = srv.word_to_document_id_to_term_frequency_
    /\ document_id_to_document_data_' = srv.document_id_to_document_data_
    /\ document_ids_' = srv.document_ids_

\* the state after construction, `op` in lastOp
InitWith(op) ==
    LET srv == NewSearchServer(Range(SplitIntoWords(StopWordsText)))
    IN  /\ stop_words_ = srv.stop_words_
        /\ words_storage_ = srv.words_storage_
        /\ word_to_document_id_to_term_frequency_ = srv.word_to_document_id_to_term_frequency_
        /\ document_id_to_document_data_ = srv.document_id_to_document_data_
        /\ document_ids_ = srv.document_ids_
        /\ exception_pointer_in_parse_query_word = "nullptr"
        /\ lastOp = op
        /\ pc = [r \in Readers |-> "idle"]
        /\ call = [r \in Readers |-> NoCall]
        /\ todo = [r \in Readers |-> {}]
        /\ query = [r \in Readers |-> NoQuery]
        /\ temp = [r \in Readers |-> "nullptr"]
        /\ out = [r \in Readers |-> [kind |-> "none"]]
        /\ removal = NoRemoval

Init == InitWith([op |-> "construct"])

\* the threads are back from their calls, the results taken
ReadersReturn ==
    /\ pc' = [r \in Readers |-> "idle"]
    /\ call' = [r \in Readers |-> NoCall]
    /\ todo' = [r \in Readers |-> {}]
    /\ query' = [r \in Readers |-> NoQuery]
    /\ temp' = [r \in Readers |-> "nullptr"]
    /\ out' = [r \in Readers |-> [kind |-> "none"]]

\* no read-only call is in flight: the callers serialize mutations against everything
Quiescent == \A r \in Readers : pc[r] \in {"idle", "done"}

\* a call of AddDocument; known and valid record the call's circumstances: the id was
\* in the document store, and the text has no word with a control character
AddDocumentCall(document_id, input) ==
    /\ Quiescent
    /\ LET res == AddDocument(Server, document_id, input.document, input.status, input.ratings)
       IN  /\ SetServer(res.srv)
           /\ lastOp' = [op |-> "AddDocument", id |-> document_id, ret |-> res.ret,
                         known |-> document_id \in DOMAIN document_id_to_document_data_,
                         valid |-> SplitIntoWordsNoStop(stop_words_, input.document).valid]
    /\ ReadersReturn
    /\ UNCHANGED <<exception_pointer_in_parse_query_word, removal>>

\* a call of RemoveDocument under either policy; known, words and after_add record the
\* call's circumstances: the id was in the document store, the words its document had,
\* and the call before this one was the AddDocument that put it there
RemoveDocumentCall(policy, document_id) ==
    /\ Quiescent
    /\ \E order \in ElementOrders(policy, Cardinality(DOMAIN GetWordFrequencies(Server, document_id))) :
         LET res == RemoveDocument(Server, order, document_id)
         IN  /\ SetServer(res.srv)
             /\ lastOp' = [op |-> "RemoveDocument", id |-> document_id, ret |-> res.ret,
                           known |-> document_id \in DOMAIN document_id_to_document_data_,
                           words |-> DOMAIN GetWordFrequencies(Server, document_id),
                           after_add |-> /\ lastOp.op = "AddDocument"
                                         /\ lastOp.id = document_id
                                         /\ lastOp.ret = TRUE]
    /\ ReadersReturn
    /\ UNCHANGED <<exception_pointer_in_parse_query_word, removal>>

AddDocumentStep == \E document_id \in DocIds, input \in DocInputs : AddDocumentCall(document_id, input)

RemoveDocumentStep == \E policy \in Policies, document_id \in DocIds : RemoveDocumentCall(policy, document_id)

\* the index under calls of AddDocument and RemoveDocument
Next == AddDocumentStep \/ RemoveDocumentStep

Spec == Init /\ [][Next]_vars

----------------------------------------------------------------------------
(* Claims about the index under AddDocument and RemoveDocument *)

\* the words some live document has in its word-frequency map
LiveWords ==
    UNION {DOMAIN document_id_to_document_data_[d].word_frequencies :
              d \in DOMAIN document_id_to_document_data_}

\* C4: after any sequence of completed AddDocument and RemoveDocument calls a word has
\* a row in the inverted index if and only if some live document contains it, and no
\* row has an empty document-to-frequency mapping.
C4_IndexRowsAreLiveWords ==
    /\ DOMAIN word_to_document_id_to_term_frequency_ = LiveWords
    /\ \A w \in DOMAIN word_to_document_id_to_term_frequency_ :
          DOMAIN word_to_document_id_to_term_frequency_[w] # {}

\* a RemoveDocument has just taken the last document of a word that was indexed, while
\* other words are still indexed
C4_Witness ==
    /\ lastOp.op = "RemoveDocument"
    /\ lastOp.known
    /\ DOMAIN word_to_document_id_to_term_frequency_ # {}
    /\ \E w \in words_storage_.string_views_ : w \notin DOMAIN word_to_document_id_to_term_frequency_

\* C5: RemoveDocument(id) on an id that is not in the document store changes nothing in
\* the server and returns normally; a RemoveDocument that returned leaves its id out of
\* the document store, so that a second RemoveDocument(id) leaves the state of the first.
C5_RemoveUnknownIsNoOp ==
    [][ lastOp'.op = "RemoveDocument" =>
          /\ lastOp'.id \notin DOMAIN document_id_to_document_data_ =>
                /\ lastOp'.ret = "returned"
                /\ UNCHANGED server_vars
          /\ lastOp'.ret = "returned" =>
                /\ lastOp'.id \notin DOMAIN document_id_to_document_data_'
                /\ \A policy \in Policies :
                      \A order \in ElementOrders(policy, 0) :
                         RemoveDocument(Server', order, lastOp'.id) = [srv |-> Server', ret |-> "returned"]
      ]_vars

\* RemoveDocument was called on an id that is not in the store, while other documents are
C5_Witness ==
    /\ lastOp.op = "RemoveDocument"
    /\ ~lastOp.known
    /\ lastOp.ret = "returned"
    /\ DOMAIN document_id_to_document_data_ # {}

\* C6: for any index state and any id not present in it, a successful AddDocument(id, ...)
\* followed by RemoveDocument(id), under either policy, restores the document count, the
\* document store, the id set and the inverted index, and GetWordFrequencies(id) is then
\* empty; the interner keeps every word it had.
C6_AddThenRemoveRestores ==
    \A document_id \in DocIds \ DOMAIN document_id_to_document_data_ :
       \A input \in DocInputs :
          LET added == AddDocument(Server, document_id, input.document, input.status, input.ratings)
              n == Cardinality(DOMAIN GetWordFrequencies(added.srv, document_id))
          IN  added.ret =>
                 \A policy \in Policies :
                    \A order \in ElementOrders(policy, n) :
                       LET removed == RemoveDocument(added.srv, order, document_id)
                       IN  /\ removed.ret = "returned"
                           /\ GetDocumentCount(removed.srv) = GetDocumentCount(Server)
                           /\ removed.srv.document_id_to_document_data_ = document_id_to_document_data_
                           /\ removed.srv.document_ids_ = document_ids_
                           /\ removed.srv.word_to_document_id_to_term_frequency_ =
                                 word_to_document_id_to_term_frequency_
                           /\ DOMAIN GetWordFrequencies(removed.srv, document_id) = {}
                           /\ words_storage_.string_views_ \subseteq removed.srv.words_storage_.string_views_

\* a document was added to a server holding other documents and removed by the next call
C6_Witness ==
    /\ lastOp.op = "RemoveDocument"
    /\ lastOp.known
    /\ lastOp.after_add
    /\ DOMAIN document_id_to_document_data_ # {}
    /\ DOMAIN word_to_document_id_to_term_frequency_ # {}

\* C15: AddDocument with an id that already exists in the document store returns
\* failure and leaves the document store, the id set, the inverted index and the
\* document count exactly as they were before the call.
C15_AddKnownIdIsRejected ==
    [][ (lastOp'.op = "AddDocument" /\ lastOp'.id \in DOMAIN document_id_to_document_data_) =>
           /\ lastOp'.ret = FALSE
           /\ document_id_to_document_data_' = document_id_to_document_data_
           /\ document_ids_' = document_ids_
           /\ word_to_document_id_to_term_frequency_' = word_to_document_id_to_term_frequency_
           /\ GetDocumentCount(Server') = GetDocumentCount(Server)
      ]_vars

\* AddDocument was called with a text it accepts and the id of a document the server
\* has, which has words the text has not
C15_Witness ==
    /\ lastOp.op = "AddDocument"
    /\ lastOp.known
    /\ lastOp.valid
    /\ lastOp.ret = FALSE
    /\ Cardinality(DOMAIN GetWordFrequencies(Server, lastOp.id)) = 2
    /\ GetDocumentCount(Server) >= 2

\* every word the server holds: in a row, in the interner or in a document
IndexedWords ==
    DOMAIN word_to_document_id_to_term_frequency_ \cup words_storage_.string_views_ \cup LiveWords

\* C17: after any sequence of completed AddDocument and RemoveDocument calls the
\* document store and the inverted index agree: for every live document d and word w,
\* w is a key of d's word-frequency map if and only if d is a key of w's index row,
\* with the same frequency; so RemoveDocument's row lookup for each of the document's
\* words never misses.
C17_StoreAndIndexAgree ==
    /\ \A d \in DOMAIN document_id_to_document_data_ :
          \A w \in IndexedWords :
             LET frequencies == document_id_to_document_data_[d].word_frequencies
                 index == word_to_document_id_to_term_frequency_
             IN  /\ w \in DOMAIN frequencies <=> (w \in DOMAIN index /\ d \in DOMAIN index[w])
                 /\ w \in DOMAIN frequencies => index[w][d] = frequencies[w]
    /\ \A d \in DocIds :
          \A policy \in Policies :
             \A order \in ElementOrders(policy, Cardinality(DOMAIN GetWordFrequencies(Server, d))) :
                RemoveDocument(Server, order, d).ret = "returned"
    /\ lastOp.op = "RemoveDocument" => lastOp.ret = "returned"

\* a document has been removed from a server that keeps two documents, one of two
\* words and one with a word
C17_Witness ==
    /\ lastOp.op = "RemoveDocument"
    /\ lastOp.known
    /\ \E d, e \in DOMAIN document_id_to_document_data_ :
          /\ d # e
          /\ Cardinality(DOMAIN document_id_to_document_data_[d].word_frequencies) = 2
          /\ DOMAIN document_id_to_document_data_[e].word_frequencies # {}

\* C18: after any sequence of completed AddDocument and RemoveDocument calls the id
\* set that begin()/end() iterate equals the key set of the document store, so
\* iteration yields exactly the live document ids, each once, in ascending order, and
\* none of a removed document.
C18_IterationYieldsLiveIds ==
    LET ids == DocumentIdsFromBeginToEnd(Server)
    IN  /\ document_ids_ = DOMAIN document_id_to_document_data_
        /\ Range(ids) = DOMAIN document_id_to_document_data_
        /\ Len(ids) = GetDocumentCount(Server)
        /\ \A i, j \in 1..Len(ids) : i < j => ids[i] < ids[j]
        /\ (lastOp.op = "RemoveDocument" /\ lastOp.ret = "returned") =>
              \A i \in 1..Len(ids) : ids[i] # lastOp.id

\* a document has been removed whose id lies between those of two documents that stay
C18_Witness ==
    /\ lastOp.op = "RemoveDocument"
    /\ lastOp.known
    /\ lastOp.ret = "returned"
    /\ \E d, e \in DOMAIN document_id_to_document_data_ : d < lastOp.id /\ lastOp.id < e

\* C19: RemoveDocument(id) of a live document changes only what belongs to that
\* document: every other document's status, rating and word-frequency map, every other
\* document's entry in every index row, the stop-word set and the interner are
\* unchanged, and afterwards id appears in no index row.
C19_RemoveChangesOnlyItsDocument ==
    [][ (lastOp'.op = "RemoveDocument" /\ lastOp'.id \in DOMAIN document_id_to_document_data_) =>
           LET id == lastOp'.id
               index == word_to_document_id_to_term_frequency_
               index_after == word_to_document_id_to_term_frequency_'
           IN  /\ DOMAIN document_id_to_document_data_' = DOMAIN document_id_to_document_data_ \ {id}
               /\ \A d \in DOMAIN document_id_to_document_data_ \ {id} :
                     document_id_to_document_data_'[d] = document_id_to_document_data_[d]
               /\ document_ids_' = document_ids_ \ {id}
               /\ \A w \in DOMAIN index :
                     \A d \in DOMAIN index[w] \ {id} :
                        /\ w \in DOMAIN index_after
                        /\ d \in DOMAIN index_after[w]
                        /\ index_after[w][d] = index[w][d]
               /\ \A w \in DOMAIN index_after :
                     /\ w \in DOMAIN index
                     /\ DOMAIN index_after[w] = DOMAIN index[w] \ {id}
               /\ stop_words_' = stop_words_
               /\ words_storage_' = words_storage_
      ]_vars

\* a document has been removed that had a word of another document, whose row stays,
\* and a word of its own, whose row is gone
C19_Witness ==
    /\ lastOp.op = "RemoveDocument"
    /\ lastOp.known
    /\ lastOp.ret = "returned"
    /\ \E w \in lastOp.words : w \in DOMAIN word_to_document_id_to_term_frequency_
    /\ \E w \in lastOp.words : w \notin DOMAIN word_to_document_id_to_term_frequency_

----------------------------------------------------------------------------
(* ParseQuery as a function of the text and the policy *)

\* a constructed server and a query text to parse under a policy
InitParse ==
    \E policy \in Policies, text \in QueryTexts :
       InitWith([op |-> "text", policy |-> policy, text |-> text])

\* ParseQuery and the error handling that follows it in MatchDocument and
\* FindTopDocuments, with no other call in flight: the Query parsed, and the error
\* taken out of the global slot
ParseQueryCall ==
    /\ Quiescent
    /\ lastOp.op = "text"
    /\ \E parsed \in ParseQuery(lastOp.policy, stop_words_, lastOp.text,
                                exception_pointer_in_parse_query_word) :
          /\ lastOp' = [op |-> "ParseQuery", policy |-> lastOp.policy, text |-> lastOp.text,
                        ret |-> parsed.query, error |-> parsed.error]
          /\ exception_pointer_in_parse_query_word' = "nullptr"
    /\ UNCHANGED <<server_vars, reader_vars, removal>>

NextParse == ParseQueryCall

SpecParse == InitParse /\ [][NextParse]_vars

\* the texts made of the same words as `text`, in every order
Reorderings(text) ==
    LET words == SplitIntoWords(text)
    IN  {JoinWords([i \in 1..Len(words) |-> words[p[i]]]) : p \in Permutations1(Len(words))}

\* C3: for every query text, ParseQuery yields the same plus-word set and minus-word set
\* under the sequential and the parallel policy, for every permutation of the tokens
\* and every grouping of the reduction; on the Queries of the text's words the combine
\* step is commutative and associative and has the empty Query as identity.
C3_ParseQueryIsOrderIndependent ==
    lastOp.op = "ParseQuery" =>
       LET words == SplitIntoWords(lastOp.text)
           queries == {TransformWordInQuery(stop_words_, words[i]) : i \in 1..Len(words)} \cup {NoQuery}
       IN  /\ \A policy \in Policies :
                 TransformReduce(policy, stop_words_, words) = {lastOp.ret}
           /\ \A text \in Reorderings(lastOp.text) :
                 TransformReduce("seq", stop_words_, SplitIntoWords(text)) = {lastOp.ret}
           /\ \A x, y \in queries : CombineQueries(x, y) = CombineQueries(y, x)
           /\ \A x, y, z \in queries :
                 CombineQueries(CombineQueries(x, y), z) = CombineQueries(x, CombineQueries(y, z))
           /\ \A x \in queries : CombineQueries(NoQuery, x) = x /\ CombineQueries(x, NoQuery) = x

\* a text with a plus word, a minus word and a repeated word was parsed under the
\* parallel policy
C3_Witness ==
    /\ lastOp.op = "ParseQuery"
    /\ lastOp.policy = "par"
    /\ Len(SplitIntoWords(lastOp.text)) = 3
    /\ lastOp.ret.plus_words # {}
    /\ lastOp.ret.minus_words # {}
    /\ Cardinality(lastOp.ret.plus_words \cup lastOp.ret.minus_words) = 2
    /\ lastOp.error = "nullptr"

----------------------------------------------------------------------------
(* Read-only calls, one thread each, step by step *)

\* the errors of ParseQueryWord
ParseErrors == {"MalformedQuery", "InvalidWord"}

\* a thread calls FindTopDocuments or MatchDocument
BeginCall(r, c) ==
    /\ pc[r] \in {"idle", "done"}
    /\ call' = [call EXCEPT ![r] = c]
    /\ todo' = [todo EXCEPT ![r] = 1..Len(SplitIntoWords(c.text))]
    /\ query' = [query EXCEPT ![r] = NoQuery]
    /\ temp' = [temp EXCEPT ![r] = "nullptr"]
    /\ out' = [out EXCEPT ![r] = [kind |-> "none"]]
    /\ pc' = [pc EXCEPT ![r] = "ParseQuery"]
    /\ UNCHANGED <<server_vars, exception_pointer_in_parse_query_word, lastOp, removal>>

\* ParseQuery transforms one more word and combines it into the Query: the next word
\* under the sequential policy, any word left under a parallel one.  ParseQueryWord
\* stores its error in the global slot.
ParseQueryWordStep(r) ==
    /\ pc[r] = "ParseQuery"
    /\ todo[r] # {}
    /\ \E i \in todo[r] :
          /\ call[r].policy = "seq" => \A j \in todo[r] : i <= j
          /\ LET word == SplitIntoWords(call[r].text)[i]
                 parsed == ParseQueryWord(stop_words_, word)
             IN  /\ query' = [query EXCEPT ![r] =
                                 CombineQueries(@, TransformWordInQuery(stop_words_, word))]
                 /\ exception_pointer_in_parse_query_word' =
                       IF parsed.error # "nullptr" THEN parsed.error
                       ELSE exception_pointer_in_parse_query_word
          /\ todo' = [todo EXCEPT ![r] = @ \ {i}]
    /\ UNCHANGED <<server_vars, lastOp, removal, pc, call, temp, out>>

\* what the call does after the error handling
CallBody(srv, c, parsed_query) ==
    IF c.op = "MatchDocument"
    THEN {MatchDocumentBody(srv, parsed_query, c.id)}
    ELSE FindTopDocumentsBody(srv, parsed_query, c.predicate)

\* if (exception_pointer_in_parse_query_word): the slot is read once.  When it is null
\* the thread shares nothing more with the other thread, and the rest of the call (the
\* body, on the Query parsed) is taken in the same step; the locals end with the call.
CheckSlot(r) ==
    /\ pc[r] = "ParseQuery"
    /\ todo[r] = {}
    /\ IF exception_pointer_in_parse_query_word # "nullptr"
       THEN /\ pc' = [pc EXCEPT ![r] = "copy"]
            /\ UNCHANGED <<query, out>>
       ELSE /\ \E result \in CallBody(Server, call[r], query[r]) :
                  out' = [out EXCEPT ![r] = result]
            /\ query' = [query EXCEPT ![r] = NoQuery]
            /\ pc' = [pc EXCEPT ![r] = "done"]
    /\ UNCHANGED <<server_vars, exception_pointer_in_parse_query_word, lastOp, removal,
                   call, todo, temp>>

\* auto temp_exception_holder = exception_pointer_in_parse_query_word: the slot is
\* read a second time
CopySlot(r) ==
    /\ pc[r] = "copy"
    /\ temp' = [temp EXCEPT ![r] = exception_pointer_in_parse_query_word]
    /\ pc' = [pc EXCEPT ![r] = "clear"]
    /\ UNCHANGED <<server_vars, exception_pointer_in_parse_query_word, lastOp, removal,
                   call, todo, query, out>>

\* exception_pointer_in_parse_query_word = nullptr; std::rethrow_exception(temp_exception_holder):
\* the call ends with the exception held.  A null holder breaks the precondition of
\* rethrow_exception, which never returns: the call ends "undefined", with no result
\* and no exception of its own.
ClearSlotAndRethrow(r) ==
    /\ pc[r] = "clear"
    /\ exception_pointer_in_parse_query_word' = "nullptr"
    /\ out' = [out EXCEPT ![r] = IF temp[r] # "nullptr"
                                 THEN [kind |-> "throw", error |-> temp[r]]
                                 ELSE [kind |-> "undefined"]]
    /\ pc' = [pc EXCEPT ![r] = "done"]
    /\ query' = [query EXCEPT ![r] = NoQuery]
    /\ temp' = [temp EXCEPT ![r] = "nullptr"]
    /\ UNCHANGED <<server_vars, lastOp, removal, call, todo>>

ReaderStep(r) ==
    \/ \E c \in ReaderCalls : BeginCall(r, c)
    \/ ParseQueryWordStep(r)
    \/ CheckSlot(r)
    \/ CopySlot(r)
    \/ ClearSlotAndRethrow(r)

\* the documents are added in the order of their ids
AddReaderDocStep ==
    \E d \in ReaderDocs : d[1] = GetDocumentCount(Server) /\ AddDocumentCall(d[1], d[2])

\* read-only calls of two threads on a server of up to two documents
NextReaders == AddReaderDocStep \/ \E r \in Readers : ReaderStep(r)

SpecReaders == Init /\ [][NextReaders]_vars

----------------------------------------------------------------------------
(* Claims about the read-only calls *)

\* the errors of the words of a query text
TextErrors(text) ==
    LET words == SplitIntoWords(text)
    IN  {ParseQueryWord(stop_words_, words[i]).error : i \in 1..Len(words)} \ {"nullptr"}

QueryIsValid(text) == TextErrors(text) = {}

\* the plus and minus words a valid query text asks for: the words without a minus
\* sign, and the words after a minus sign, stop words left out
PlusWordsOf(text) ==
    {w \in Range(SplitIntoWords(text)) : Head(w) # "-" /\ w \notin stop_words_}

MinusWordsOf(text) ==
    {Tail(w) : w \in {x \in Range(SplitIntoWords(text)) : Head(x) = "-"}} \ stop_words_

\* the words of a document, by the document store
WordsOfDocument(document_id) ==
    DOMAIN document_id_to_document_data_[document_id].word_frequencies

\* thread r is back from a call of `op`
Finished(r, op) == pc[r] = "done" /\ call[r].op = op

\* C1: when two read-only calls run concurrently on the same index, a parse error
\* raised by one call's query is thrown to that call's caller only: a call whose query
\* is valid never throws a parse error, and a call whose query is invalid never returns
\* a result.
C1_ParseErrorStaysWithItsCall ==
    \A r \in Readers :
       pc[r] = "done" =>
          /\ QueryIsValid(call[r].text) =>
                ~(out[r].kind = "throw" /\ out[r].error \in ParseErrors)
          /\ ~QueryIsValid(call[r].text) => out[r].kind # "return"

\* C2: if any token of the query is malformed or invalid, the call that parsed it
\* (FindTopDocuments, or MatchDocument under either policy) fails with the error of one
\* of its tokens and never returns a result.
C2_BadTokenFailsTheCall ==
    \A r \in Readers :
       (pc[r] = "done" /\ ~QueryIsValid(call[r].text)) =>
          /\ out[r].kind = "throw"
          /\ out[r].error \in TextErrors(call[r].text)

\* the MatchDocument calls on an id that is not in the document store
UnknownIdCalls ==
    {c \in ReaderCalls : c.op = "MatchDocument" /\ c.id \notin DOMAIN document_id_to_document_data_}

\* C7 as claimed: MatchDocument(query, id) fails with UnknownDocumentId whenever id is not
\* in the document store, for every query text, a malformed or invalid one too.
C7_UnknownIdBeforeParseError ==
    \A r \in Readers :
       (Finished(r, "MatchDocument") /\ call[r].id \notin DOMAIN document_id_to_document_data_) =>
          /\ out[r].kind = "throw"
          /\ out[r].error = "out_of_range"

\* C7 as amended: MatchDocument(query, id) on an id that is not in the document store
\* never returns a result, for every query text.  The query is parsed and a pending
\* parse error is rethrown before the id is looked up: with no other call in flight the
\* call fails with UnknownDocumentId (std::out_of_range) when the query is valid, and with
\* the parse error of one of its words when it is not; either way the slot is left null.
C7_UnknownIdNeverReturns ==
    /\ \A r \in Readers :
          (Finished(r, "MatchDocument") /\ call[r].id \notin DOMAIN document_id_to_document_data_) =>
             /\ out[r].kind # "return"
             /\ out[r].kind = "throw" => out[r].error \in {"out_of_range"} \cup ParseErrors
    /\ \A c \in UnknownIdCalls :
          \A o \in MatchDocument(Server, "nullptr", c.policy, c.text, c.id) :
             /\ o.out.kind = "throw"
             /\ o.out.error \in (IF QueryIsValid(c.text) THEN {"out_of_range"} ELSE TextErrors(c.text))
             /\ o.slot = "nullptr"

\* a MatchDocument with an unknown id and an invalid query has thrown the parse error,
\* and another with a valid query has thrown std::out_of_range
C7_Witness ==
    \E r1, r2 \in Readers :
       /\ Finished(r1, "MatchDocument") /\ Finished(r2, "MatchDocument")
       /\ call[r1].id \notin DOMAIN document_id_to_document_data_
       /\ call[r2].id \notin DOMAIN document_id_to_document_data_
       /\ ~QueryIsValid(call[r1].text)
       /\ out[r1].kind = "throw" /\ out[r1].error \in TextErrors(call[r1].text)
       /\ QueryIsValid(call[r2].text)
       /\ out[r2].kind = "throw" /\ out[r2].error = "out_of_range"

\* the MatchDocument calls with a valid query on a document of the store
KnownIdCalls ==
    {c \in ReaderCalls : /\ c.op = "MatchDocument"
                         /\ c.id \in DOMAIN document_id_to_document_data_
                         /\ QueryIsValid(c.text)}

MinusWordInDocument(c) == MinusWordsOf(c.text) \cap WordsOfDocument(c.id) # {}

\* C8: for a known document id and a valid query with a minus word that is in the
\* document, what MatchDocument returns is an empty matched-word list with the
\* document's stored status; it returns that, and leaves the slot null, whenever no
\* other call is in flight.
C8_MinusWordClearsMatch ==
    /\ \A r \in Readers :
          (Finished(r, "MatchDocument") /\ call[r] \in KnownIdCalls /\ MinusWordInDocument(call[r])
             /\ out[r].kind = "return") =>
             /\ out[r].words = <<>>
             /\ out[r].status = document_id_to_document_data_[call[r].id].status
    /\ \A c \in KnownIdCalls :
          MinusWordInDocument(c) =>
             MatchDocument(Server, "nullptr", c.policy, c.text, c.id) =
                {[out |-> [kind |-> "return", words |-> <<>>,
                           status |-> document_id_to_document_data_[c.id].status],
                  slot |-> "nullptr"]}

\* a MatchDocument has returned for a document that has a plus word and a minus word
\* of the query
C8_Witness ==
    \E r \in Readers :
       /\ Finished(r, "MatchDocument")
       /\ call[r] \in KnownIdCalls
       /\ MinusWordInDocument(call[r])
       /\ PlusWordsOf(call[r].text) \cap WordsOfDocument(call[r].id) # {}
       /\ out[r].kind = "return"

\* the plus words of the query that the inverted index lists for the document
ListedPlusWords(c) ==
    {w \in PlusWordsOf(c.text) :
        /\ w \in DOMAIN word_to_document_id_to_term_frequency_
        /\ c.id \in DOMAIN word_to_document_id_to_term_frequency_[w]}

\* `words` is the set S, each word once, in ascending order
IsAscendingListOf(words, S) ==
    /\ Range(words) = S
    /\ \A i, j \in 1..Len(words) : i < j => WordLess(words[i], words[j])

\* C9: for a known document id and a valid query none of whose minus words is in the
\* document, what MatchDocument returns is the query's plus words that the inverted
\* index lists for that document, each once, in ascending word order, with the
\* document's status; it returns that whenever no other call is in flight.
C9_MatchedWordsAreListedPlusWords ==
    /\ \A r \in Readers :
          (Finished(r, "MatchDocument") /\ call[r] \in KnownIdCalls /\ ~MinusWordInDocument(call[r])
             /\ out[r].kind = "return") =>
             /\ IsAscendingListOf(out[r].words, ListedPlusWords(call[r]))
             /\ out[r].status = document_id_to_document_data_[call[r].id].status
    /\ \A c \in KnownIdCalls :
          ~MinusWordInDocument(c) =>
             \A o \in MatchDocument(Server, "nullptr", c.policy, c.text, c.id) :
                /\ o.out.kind = "return"
                /\ IsAscendingListOf(o.out.words, ListedPlusWords(c))

\* MatchDocument has returned two words for one document, and for another document a
\* word less than the query has, because a plus word is indexed for the first only or
\* because the query's minus word is in the first only
C9_Witness ==
    \E r1, r2 \in Readers :
       /\ Finished(r1, "MatchDocument") /\ Finished(r2, "MatchDocument")
       /\ call[r1] \in KnownIdCalls /\ call[r2] \in KnownIdCalls
       /\ ~MinusWordInDocument(call[r1]) /\ ~MinusWordInDocument(call[r2])
       /\ out[r1].kind = "return" /\ Len(out[r1].words) = 2
       /\ out[r2].kind = "return" /\ Len(out[r2].words) = 1
       /\ Cardinality(PlusWordsOf(call[r2].text) \cup MinusWordsOf(call[r2].text)) = 2

----------------------------------------------------------------------------
(* FindTopDocuments on a server of several documents, the calls one after another *)

AddTopDocStep ==
    \E input \in TopInputs :
       /\ GetDocumentCount(Server) < MaxTopDocs
       /\ AddDocumentCall(GetDocumentCount(Server),
                          [document |-> input.document, status |-> input.status,
                           ratings |-> <<GetDocumentCount(Server) \div 2>>])

\* the last completed call was a FindTopDocuments or MatchDocument that threw the
\* error of a word of its query
FailedOnParseError ==
    /\ lastOp.op \in {"FindTopDocuments", "MatchDocument"}
    /\ lastOp.ret.kind = "throw"
    /\ lastOp.ret.error \in ParseErrors

\* a call of FindTopDocuments with no other call in flight; after_parse_error records
\* that the call before it failed on a parse error
FindTopDocumentsCall(text, predicate) ==
    /\ Quiescent
    /\ \E o \in FindTopDocuments(Server, exception_pointer_in_parse_query_word, text, predicate) :
          /\ lastOp' = [op |-> "FindTopDocuments", text |-> text, predicate |-> predicate,
                        ret |-> o.out, after_parse_error |-> FailedOnParseError]
          /\ exception_pointer_in_parse_query_word' = o.slot
    /\ ReadersReturn
    /\ UNCHANGED <<server_vars, removal>>

FindTopDocumentsStep ==
    \E text \in TopTexts, predicate \in TopPredicates : FindTopDocumentsCall(text, predicate)

NextTop == AddTopDocStep \/ FindTopDocumentsStep

SpecTop == Init /\ [][NextTop]_vars

\* the documents FindAllDocuments scores for the text that satisfy the predicate
SatisfyingDocuments(text, predicate) ==
    {d \in Range(FindAllDocuments(Server, [plus_words |-> PlusWordsOf(text),
                                           minus_words |-> MinusWordsOf(text)])) :
        Predicate(predicate, d.id,
                  document_id_to_document_data_[d.id].status,
                  document_id_to_document_data_[d.id].rating)}

Min(x, y) == IF x < y THEN x ELSE y

\* C10: FindTopDocuments with a valid query returns exactly min(5, n) documents, n the
\* number of documents scored by FindAllDocuments that satisfy the predicate: each
\* returned document is one of them, none twice, and the cut to 5 comes after filtering
\* and sorting, so that no document left out ranks before one returned.
C10_TopIsFirstFiveOfFiltered ==
    lastOp.op = "FindTopDocuments" =>
       IF ~QueryIsValid(lastOp.text) THEN lastOp.ret.kind = "throw"
       ELSE LET satisfying == SatisfyingDocuments(lastOp.text, lastOp.predicate)
                returned == lastOp.ret.documents
            IN  /\ lastOp.ret.kind = "return"
                /\ Len(returned) = Min(kMaxResultDocumentCount, Cardinality(satisfying))
                /\ Range(returned) \subseteq satisfying
                /\ Cardinality(Range(returned)) = Len(returned)
                /\ \A omitted \in satisfying \ Range(returned) :
                      \A d \in Range(returned) : ~ComesBefore(omitted, d)

\* FindTopDocuments has returned 5 documents of more that satisfy the predicate, which
\* not every scored document does
C10_Witness ==
    /\ lastOp.op = "FindTopDocuments"
    /\ lastOp.ret.kind = "return"
    /\ Len(lastOp.ret.documents) = kMaxResultDocumentCount
    /\ Cardinality(SatisfyingDocuments(lastOp.text, lastOp.predicate)) > kMaxResultDocumentCount
    /\ \E d \in DOMAIN document_id_to_document_data_ :
          /\ ~Predicate(lastOp.predicate, d, document_id_to_document_data_[d].status,
                        document_id_to_document_data_[d].rating)
          /\ PlusWordsOf(lastOp.text) \cap WordsOfDocument(d) # {}

----------------------------------------------------------------------------
(* The sort at the end of FindTopDocuments as a function of the filtered documents *)

\* FindTopDocuments sorts at most MaxSortDocs documents
MaxSortDocs == 3

\* the relevances of the documents sorted, in units of 1e-7: ln(4/3) / 602, ln(4/3) / 601
\* and ln(4/3) / 600, the relevance for the query "a" of documents of 602, 601 and 600
\* words with one "a" each, on a server of these three and one document without "a"
SortRelevances == {4778, 4786, 4794}

SortRatings == {1, 2, 3}

\* filtered_documents before std::sort: the documents in ascending order of the id
InitSort ==
    \E n \in 0..MaxSortDocs :
       \E relevance \in [1..n -> SortRelevances], rating \in [1..n -> SortRatings] :
          InitWith([op |-> "filtered",
                    documents |-> [i \in 1..n |-> [id |-> i - 1, relevance |-> relevance[i],
                                                   rating |-> rating[i]]]])

\* lines 296-309 of FindTopDocuments: the documents sorted and cut
SortCall ==
    /\ Quiescent
    /\ lastOp.op = "filtered"
    /\ \E documents \in SortAndResize(lastOp.documents) :
          lastOp' = [op |-> "sorted", filtered |-> lastOp.documents, ret |-> documents]
    /\ UNCHANGED <<server_vars, reader_vars, exception_pointer_in_parse_query_word, removal>>

NextSort == SortCall

SpecSort == InitSort /\ [][NextSort]_vars

\* the list the last call returned, empty when it returned none
ReturnedDocuments ==
    IF lastOp.op = "sorted" THEN lastOp.ret
    ELSE IF lastOp.op = "FindTopDocuments" /\ lastOp.ret.kind = "return" THEN lastOp.ret.documents
    ELSE <<>>

\* a may stand before b: its relevance is no less, or, the relevances differing by less
\* than kAccuracy, its rating is no less
InClaimedOrder(a, b) ==
    IF Abs(a.relevance - b.relevance) < kAccuracy
    THEN a.rating >= b.rating
    ELSE a.relevance >= b.relevance

\* C11: in the list FindTopDocuments returns, for every pair of documents a before b,
\* relevance(a) >= relevance(b) unless the two relevances differ by less than 1e-6, in
\* which case rating(a) >= rating(b).
C11_ReturnedListIsOrdered ==
    \A i, j \in 1..Len(ReturnedDocuments) :
       i < j => InClaimedOrder(ReturnedDocuments[i], ReturnedDocuments[j])

----------------------------------------------------------------------------
(* WordStorage under calls of Insert and Find *)

\* the storage holds at most MaxStoredWords words
MaxStoredWords == 3

\* the words Insert and Find are called with: plain words, a prefix of another, the
\* empty string and a word with a control character (WordStorage validates nothing)
StorageWords == { <<"a">>, <<"b">>, <<"a", "b">>, <<>>, <<"b", "\t">> }

\* a call of WordStorage::Insert on the server's storage; known records whether the
\* word was in the storage before the call
WordStorageInsertCall(word) ==
    /\ Quiescent
    /\ \/ WordStorageFind(words_storage_, word)
       \/ Len(words_storage_.data_) < MaxStoredWords
    /\ words_storage_' = WordStorageInsert(words_storage_, word)
    /\ lastOp' = [op |-> "Insert", word |-> word,
                  known |-> WordStorageFind(words_storage_, word)]
    /\ UNCHANGED <<stop_words_, word_to_document_id_to_term_frequency_,
                   document_id_to_document_data_, document_ids_,
                   exception_pointer_in_parse_query_word, reader_vars, removal>>

\* a call of WordStorage::Find; found is whether the iterator returned is not end()
WordStorageFindCall(word) ==
    /\ Quiescent
    /\ lastOp' = [op |-> "Find", word |-> word, found |-> WordStorageFind(words_storage_, word)]
    /\ UNCHANGED <<server_vars, exception_pointer_in_parse_query_word, reader_vars, removal>>

WordStorageInsertStep == \E word \in StorageWords : WordStorageInsertCall(word)

WordStorageFindStep == \E word \in StorageWords : WordStorageFindCall(word)

NextStorage == WordStorageInsertStep \/ WordStorageFindStep

SpecStorage == Init /\ [][NextStorage]_vars

\* each distinct word is stored exactly once: the owning list and the view set have the
\* same size and the same contents
StoredOnce(storage) ==
    /\ Len(storage.data_) = Cardinality(storage.string_views_)
    /\ Range(storage.data_) = storage.string_views_

\* C12: WordStorage is append-only and duplicate-free: after any sequence of Insert
\* calls each distinct word is stored exactly once (the owning list and the view set
\* have the same size and the same contents), inserting an already-known word changes
\* nothing, and a word once inserted is found by Find ever after.
C12_WordStorageIsAppendOnly ==
    /\ []StoredOnce(words_storage_)
    /\ [][ /\ \* append-only: the list keeps its elements where they are
              /\ Len(words_storage_'.data_) >= Len(words_storage_.data_)
              /\ SubSeq(words_storage_'.data_, 1, Len(words_storage_.data_)) = words_storage_.data_
           /\ \* a word found before is found after
              \A word \in StorageWords :
                 WordStorageFind(words_storage_, word) => WordStorageFind(words_storage_', word)
           /\ lastOp'.op = "Insert" =>
                 /\ WordStorageFind(words_storage_', lastOp'.word)
                 /\ lastOp'.known => words_storage_' = words_storage_
                 /\ ~lastOp'.known => words_storage_'.data_ = Append(words_storage_.data_, lastOp'.word)
           /\ lastOp'.op = "Find" =>
                 /\ lastOp'.found = (\E i \in 1..Len(words_storage_.data_) :
                                        words_storage_.data_[i] = lastOp'.word)
                 /\ words_storage_' = words_storage_
        ]_vars

\* a word already stored was inserted again, into a storage of several words
C12_Witness ==
    /\ lastOp.op = "Insert"
    /\ lastOp.known
    /\ Len(words_storage_.data_) >= 2

----------------------------------------------------------------------------
(* RemoveDocument step by step: the std::for_each on its worker threads *)

\* the threads std::for_each runs the erases on: w1 is the thread that called
\* RemoveDocument, the only one at work under the sequential policy
Workers == {"w1", "w2"}

\* the documents added: one of three words, and one of two of them beside a stop word
RemoveInputs ==
    { [document |-> <<"a", " ", "b", " ", "a", "b">>, status |-> "ACTUAL", ratings |-> <<1>>],
      [document |-> <<"b", " ", "s", " ", "a">>, status |-> "BANNED", ratings |-> <<>>] }

\* lines 231-237: id_to_frequency, one row per word of the document, in the words' order
MoveRowsOut(index, words) == [i \in 1..Len(words) |-> index[words[i]]]

\* the rows of the words in the index after std::move: empty
MovedFrom(index, words) ==
    [w \in DOMAIN index |-> IF w \in Range(words) THEN EmptyMap ELSE index[w]]

\* a for_each that leaves an element it has handed to a worker among those to hand out
HandOutAgain(pending, i) == pending

\* std::for_each applies the function to every element once: an element handed to a
\* worker is no more among those to hand out
HandOut(pending, i) == pending \ {i}

\* RemoveDocument(policy, document_id) up to std::for_each.  A call that does not reach
\* for_each (unknown id, or a word without a row) ends in this step.
RemoveDocumentBegin(policy, document_id) ==
    /\ Quiescent
    /\ removal.phase = "none"
    /\ LET index == word_to_document_id_to_term_frequency_
           words == SortedWords(DOMAIN GetWordFrequencies(Server, document_id))
           ended == RemoveDocument(Server, [i \in 1..Len(words) |-> i], document_id)
       IN  IF \/ document_id \notin DOMAIN document_id_to_document_data_
              \/ \E i \in 1..Len(words) : words[i] \notin DOMAIN index
           THEN /\ SetServer(ended.srv)
                /\ lastOp' = [op |-> "RemoveDocument", id |-> document_id, ret |-> ended.ret,
                              known |-> document_id \in DOMAIN document_id_to_document_data_,
                              policy |-> policy, before |-> Server, taken_by |-> <<>>,
                              overlap |-> FALSE]
                /\ UNCHANGED removal
           ELSE /\ word_to_document_id_to_term_frequency_' = MovedFrom(index, words)
                /\ removal' = [phase |-> "for_each", policy |-> policy,
                               document_id |-> document_id, words |-> words,
                               id_to_frequency |-> MoveRowsOut(index, words),
                               pending |-> 1..Len(words),
                               busy |-> [w \in Workers |-> 0],
                               taken_by |-> [i \in 1..Len(words) |-> {}],
                               overlap |-> FALSE,
                               before |-> Server]
                /\ UNCHANGED <<stop_words_, words_storage_, document_id_to_document_data_,
                               document_ids_, lastOp>>
    /\ UNCHANGED <<exception_pointer_in_parse_query_word, reader_vars>>

\* a worker takes an element of id_to_frequency and enters element.erase(document_id):
\* the next element on the calling thread under the sequential policy, any element left
\* on any thread under the parallel one
WorkerTake(w) ==
    /\ removal.phase = "for_each"
    /\ removal.busy[w] = 0
    /\ \E i \in removal.pending :
          /\ removal.policy = "seq" => (w = "w1" /\ \A j \in removal.pending : i <= j)
          /\ removal' = [removal EXCEPT
                            !.pending = HandOut(@, i),
                            !.busy[w] = i,
                            !.taken_by[i] = @ \cup {w},
                            !.overlap = @ \/ \E v \in Workers \ {w} : removal.busy[v] # 0]
    /\ UNCHANGED <<server_vars, exception_pointer_in_parse_query_word, lastOp, reader_vars>>

\* the worker's element.erase(document_id) is done
WorkerErase(w) ==
    /\ removal.phase = "for_each"
    /\ removal.busy[w] # 0
    /\ removal' = [removal EXCEPT
                      !.id_to_frequency[removal.busy[w]] = MapErase(@, removal.document_id),
                      !.busy[w] = 0]
    /\ UNCHANGED <<server_vars, exception_pointer_in_parse_query_word, lastOp, reader_vars>>

\* for_each has returned: lines 245-257, the rows put back, the empty ones erased, the
\* document erased from the store and the id set
RemoveDocumentEnd ==
    /\ removal.phase = "for_each"
    /\ removal.pending = {}
    /\ \A w \in Workers : removal.busy[w] = 0
    /\ word_to_document_id_to_term_frequency_' =
          PutRowsBack(word_to_document_id_to_term_frequency_, removal.words,
                      removal.id_to_frequency, 1)
    /\ document_id_to_document_data_' = MapErase(document_id_to_document_data_, removal.document_id)
    /\ document_ids_' = document_ids_ \ {removal.document_id}
    /\ lastOp' = [op |-> "RemoveDocument", id |-> removal.document_id, ret |-> "returned",
                  known |-> TRUE, policy |-> removal.policy, before |-> removal.before,
                  taken_by |-> removal.taken_by, overlap |-> removal.overlap]
    /\ removal' = NoRemoval
    /\ UNCHANGED <<stop_words_, words_storage_, exception_pointer_in_parse_query_word, reader_vars>>

\* AddDocument, while no RemoveDocument is in flight
AddRemoveInputStep ==
    /\ removal.phase = "none"
    /\ \E document_id \in DocIds, input \in RemoveInputs : AddDocumentCall(document_id, input)

RemoveDocumentBeginStep ==
    \E policy \in Policies, document_id \in DocIds : RemoveDocumentBegin(policy, document_id)

WorkerStep == \E w \in Workers : WorkerTake(w) \/ WorkerErase(w)

NextRemove == AddRemoveInputStep \/ RemoveDocumentBeginStep \/ WorkerStep \/ RemoveDocumentEnd

SpecRemove == Init /\ [][NextRemove]_vars

\* what RemoveDocument gives on the server `before` when the rows are processed one
\* after another
RemovedOneAfterAnother(before, document_id) ==
    RemoveDocument(before,
                   [i \in 1..Cardinality(DOMAIN GetWordFrequencies(before, document_id)) |-> i],
                   document_id).srv

\* C13: RemoveDocument under the parallel policy has no write conflict: the concurrent
\* workers each erase the document id from a distinct word row, no row is touched by
\* two workers, and for every interleaving of the workers the final index, document
\* store and id set equal those of processing the rows one after another.
C13_ParallelRemoveHasNoConflict ==
    /\ [](removal.phase = "for_each" =>
            /\ \A v, w \in Workers :
                  (v # w /\ removal.busy[v] # 0 /\ removal.busy[w] # 0) =>
                     /\ removal.busy[v] # removal.busy[w]
                     /\ removal.words[removal.busy[v]] # removal.words[removal.busy[w]]
            /\ \A i \in 1..Len(removal.words) : Cardinality(removal.taken_by[i]) <= 1
            /\ \A i, j \in 1..Len(removal.words) : removal.words[i] = removal.words[j] => i = j)
    /\ []((lastOp.op = "RemoveDocument" /\ removal.phase = "none") =>
            LET sequential == RemovedOneAfterAnother(lastOp.before, lastOp.id)
            IN  /\ word_to_document_id_to_term_frequency_ =
                      sequential.word_to_document_id_to_term_frequency_
                /\ document_id_to_document_data_ = sequential.document_id_to_document_data_
                /\ document_ids_ = sequential.document_ids_
                /\ lastOp.known => \A i \in 1..Len(lastOp.taken_by) :
                                      Cardinality(lastOp.taken_by[i]) = 1)
    /\ [][(removal.phase = "for_each" /\ removal'.phase = "for_each") =>
             \* a worker writes its own element of id_to_frequency and nothing else
             /\ UNCHANGED server_vars
             /\ \A i \in 1..Len(removal.words) :
                   removal'.id_to_frequency[i] # removal.id_to_frequency[i] =>
                      \E w \in Workers : removal.busy[w] = i /\ removal'.busy[w] = 0
         ]_vars

\* a parallel RemoveDocument has ended in which both workers erased from a row and one
\* entered its erase while the other was in its own, on a server with another document
\* that shares a word with the one removed
C13_Witness ==
    /\ lastOp.op = "RemoveDocument"
    /\ removal.phase = "none"
    /\ lastOp.policy = "par"
    /\ lastOp.known
    /\ lastOp.overlap
    /\ \E i, j \in 1..Len(lastOp.taken_by) :
          lastOp.taken_by[i] = {"w1"} /\ lastOp.taken_by[j] = {"w2"}
    /\ DOMAIN word_to_document_id_to_term_frequency_ # {}
    /\ \E w \in DOMAIN word_to_document_id_to_term_frequency_ :
          w \in DOMAIN lastOp.before.document_id_to_document_data_[lastOp.id].word_frequencies

----------------------------------------------------------------------------
(* The public interface on a constructed server, the calls one after another *)

\* void SetStopWords(const std::string_view text), a public member that is not const.
\* Its body is not in the header: the words of the text become stop words, beside those
\* the server has or in their place.
SetStopWords(srv, text) ==
    { [srv EXCEPT !.stop_words_ = @ \cup Range(SplitIntoWords(text))],
      [srv EXCEPT !.stop_words_ = Range(SplitIntoWords(text))] }

\* the documents of the calls, with their ids, the stop-word text and the queries
InterfaceDocs ==
    { <<0, [document |-> <<"a", " ", "b", " ", "a">>, status |-> "ACTUAL", ratings |-> <<4, 5, 6>>]>>,
      <<1, [document |-> <<"b", " ", "s">>, status |-> "BANNED", ratings |-> <<>>]>> }

InterfaceStopWords == { <<"a">> }

InterfaceTexts == { <<"a", " ", "-", "b">>, <<"-">> }

SetStopWordsCall(text) ==
    /\ Quiescent
    /\ \E srv \in SetStopWords(Server, text) : SetServer(srv)
    /\ lastOp' = [op |-> "SetStopWords", text |-> text]
    /\ ReadersReturn
    /\ UNCHANGED <<exception_pointer_in_parse_query_word, removal>>

\* a call of MatchDocument with no other call in flight; after_parse_error as in
\* FindTopDocumentsCall
MatchDocumentCall(policy, text, document_id) ==
    /\ Quiescent
    /\ \E o \in MatchDocument(Server, exception_pointer_in_parse_query_word, policy, text, document_id) :
          /\ lastOp' = [op |-> "MatchDocument", policy |-> policy, text |-> text,
                        id |-> document_id, ret |-> o.out,
                        after_parse_error |-> FailedOnParseError]
          /\ exception_pointer_in_parse_query_word' = o.slot
    /\ ReadersReturn
    /\ UNCHANGED <<server_vars, removal>>

\* GetDocumentCount, GetWordFrequencies(document_id) and the ids from begin() to end()
ReadCall(document_id) ==
    /\ Quiescent
    /\ lastOp' = [op |-> "read", id |-> document_id,
                  count |-> GetDocumentCount(Server),
                  frequencies |-> GetWordFrequencies(Server, document_id),
                  ids |-> DocumentIdsFromBeginToEnd(Server)]
    /\ ReadersReturn
    /\ UNCHANGED <<server_vars, exception_pointer_in_parse_query_word, removal>>

AddInterfaceDocStep == \E d \in InterfaceDocs : AddDocumentCall(d[1], d[2])

SetStopWordsStep == \E text \in InterfaceStopWords : SetStopWordsCall(text)

MatchDocumentStep ==
    \E policy \in Policies, text \in InterfaceTexts, document_id \in DocIds :
       MatchDocumentCall(policy, text, document_id)

FindInterfaceDocsStep ==
    \E text \in InterfaceTexts, predicate \in TopPredicates : FindTopDocumentsCall(text, predicate)

ReadStep == \E document_id \in DocIds : ReadCall(document_id)

NextInterface ==
    \/ AddInterfaceDocStep
    \/ RemoveDocumentStep
    \/ SetStopWordsStep
    \/ MatchDocumentStep
    \/ FindInterfaceDocsStep
    \/ ReadStep

SpecInterface == Init /\ [][NextInterface]_vars

\* C14: the stop-word set is fixed at construction: no operation of the public interface
\* that can be called on a constructed index changes it.
C14_StopWordsAreFixed == [][stop_words_' = stop_words_]_vars

----------------------------------------------------------------------------
(* FindTopDocuments and MatchDocument called one after another *)

\* the query texts of the calls: those of ReaderTexts, and a lone minus, a plus word,
\* and a minus word before a plus word
CallTexts ==
    ReaderTexts \cup { <<"-">>, <<"a">>, <<"-", "b", " ", "a">> }

MatchReaderDocStep ==
    \E policy \in Policies, text \in CallTexts, document_id \in DocIds :
       MatchDocumentCall(policy, text, document_id)

FindReaderDocsStep ==
    \E text \in CallTexts, predicate \in TopPredicates : FindTopDocumentsCall(text, predicate)

NextCalls == AddReaderDocStep \/ MatchReaderDocStep \/ FindReaderDocsStep

SpecCalls == Init /\ [][NextCalls]_vars

\* the Query a valid text parses to
QueryOf(text) == [plus_words |-> PlusWordsOf(text), minus_words |-> MinusWordsOf(text)]

\* the last call was a FindTopDocuments or MatchDocument
LastIsReadCall == lastOp.op \in {"FindTopDocuments", "MatchDocument"}

\* the last call has a valid query and came next after a call that failed on a parse error
ValidAfterParseError ==
    /\ LastIsReadCall
    /\ lastOp.after_parse_error
    /\ QueryIsValid(lastOp.text)

\* a call that fails on a parse error leaves the slot empty when it throws
SlotEmptyAfterThrow ==
    (LastIsReadCall /\ lastOp.ret.kind = "throw") => exception_pointer_in_parse_query_word = "nullptr"

\* C16 as stated: in a sequence of non-overlapping calls, a FindTopDocuments or
\* MatchDocument call that fails on a parse error leaves the global error slot empty
\* when it throws, so the next call with a valid query does not fail and returns its
\* own result.
C16_NextValidCallReturns ==
    /\ SlotEmptyAfterThrow
    /\ ValidAfterParseError =>
          /\ lastOp.ret.kind = "return"
          /\ lastOp.op = "MatchDocument" =>
                lastOp.ret = MatchDocumentBody(Server, QueryOf(lastOp.text), lastOp.id)
          /\ lastOp.op = "FindTopDocuments" =>
                lastOp.ret \in FindTopDocumentsBody(Server, QueryOf(lastOp.text), lastOp.predicate)

\* C16, amended: in a sequence of non-overlapping calls, a FindTopDocuments or
\* MatchDocument call that fails on a parse error leaves the global error slot empty
\* when it throws, so the next call with a valid query ends as it would on its own,
\* with no error of the call before: it returns its own result, except that a
\* MatchDocument with an id that is not in the document store fails with out_of_range.
C16_NextValidCallEndsOnItsOwn ==
    /\ SlotEmptyAfterThrow
    /\ ValidAfterParseError =>
          /\ lastOp.ret.kind = "throw" =>
                /\ lastOp.op = "MatchDocument"
                /\ lastOp.id \notin DOMAIN document_id_to_document_data_
                /\ lastOp.ret.error = "out_of_range"
          /\ lastOp.op = "MatchDocument" =>
                /\ lastOp.ret = MatchDocumentBody(Server, QueryOf(lastOp.text), lastOp.id)
                /\ lastOp.id \in DOMAIN document_id_to_document_data_ => lastOp.ret.kind = "return"
          /\ lastOp.op = "FindTopDocuments" =>
                /\ lastOp.ret.kind = "return"
                /\ lastOp.ret \in FindTopDocumentsBody(Server, QueryOf(lastOp.text), lastOp.predicate)

\* a MatchDocument with a valid query, on a document that has a word of it, has
\* returned next after a call that failed on a parse error
C16_Witness ==
    /\ ValidAfterParseError
    /\ lastOp.op = "MatchDocument"
    /\ lastOp.ret.kind = "return"
    /\ lastOp.ret.words # <<>>
    /\ exception_pointer_in_parse_query_word = "nullptr"

====
